---- MODULE Spec2Model ----
(***************************************************************************)
(* Hierarchical settings of pretix: src/pretix/base/settings.py.           *)
(*                                                                         *)
(* SettingsProxy resolves a key on an owner (local cache, then the parent  *)
(* chain, then DEFAULTS, then the caller's default) and converts between   *)
(* the stored string and typed values; SettingsSandbox prefixes keys and   *)
(* delegates to the event's SettingsProxy.                                 *)
(*                                                                         *)
(* Representation.  A Python value is a record [t, n, e, s, l]: t is the   *)
(* Python type name, n an integer payload, e a decimal exponent (floats),  *)
(* s a sequence of one-character strings (the text of a str) and l a       *)
(* sequence of values (the items of a list) or of key/value pairs (the     *)
(* items of a dict, in insertion order).  Setting keys are only ever       *)
(* concatenated and compared, so they are TLA+ strings; setting values are *)
(* formatted and parsed, so they are character sequences.  A raised        *)
(* exception is the value of type "raise" carrying the exception's name.   *)
(*                                                                         *)
(* Two values are the same record exactly when Python holds the same value *)
(* of the same type; this is finer than Python's ==, which has nan # nan,  *)
(* -0.0 = 0.0, 1 = 1.0 = True and dicts equal whatever their order.        *)
(***************************************************************************)
EXTENDS Integers, Sequences, FiniteSets, TLC

(***************************************************************************)
(* Python values                                                           *)
(***************************************************************************)
PyVal(t, n, e, s, l) == [t |-> t, n |-> n, e |-> e, s |-> s, l |-> l]

PyNone == PyVal("NoneType", 0, 0, <<>>, <<>>)

PyStr(s) == PyVal("str", 0, 0, s, <<>>)

PyInt(n) == PyVal("int", n, 0, <<>>, <<>>)

PyBool(b) == PyVal("bool", IF b THEN 1 ELSE 0, 0, <<>>, <<>>)

\* the finite float m / 10^e, in normal form: m is no multiple of 10 (e may be
\* negative: 1000.0 is PyFloat(1, -3)), and 0.0 is PyFloat(0, 0)
PyFloat(m, e) == PyVal("float", m, e, <<>>, <<>>)

\* float('inf') and float('-inf')
PyInf(neg) == PyVal("float", IF neg THEN -1 ELSE 1, 0, <<"i", "n", "f">>, <<>>)

\* float('nan')
PyNan == PyVal("float", 0, 0, <<"n", "a", "n">>, <<>>)

\* -0.0
PyNegZero == PyVal("float", 0, 0, <<"-">>, <<>>)

PyList(l) == PyVal("list", 0, 0, <<>>, l)

\* the dict of the pairs [k |-> key, v |-> value] in insertion order, its keys
\* being strs (the texts k)
PyDictOf(pairs) == PyVal("dict", 0, 0, <<>>, pairs)

\* the empty dict {}
PyDict == PyDictOf(<<>>)

\* an exception of class exc leaving the call
Raise(exc) == PyVal("raise", 0, 0, <<exc>>, <<>>)

IsRaise(v) == v.t = "raise"

\* isinstance(value, as_type); bool is a subclass of int, and no value of the
\* model is a class, so nothing is an instance of the builtin `type`
IsInstance(value, as_type) ==
    CASE as_type = "str" -> value.t = "str"
      [] as_type = "int" -> value.t \in {"int", "bool"}
      [] as_type = "float" -> value.t = "float"
      [] as_type = "bool" -> value.t = "bool"
      [] as_type = "list" -> value.t = "list"
      [] as_type = "dict" -> value.t = "dict"
      [] OTHER -> FALSE

(***************************************************************************)
(* Characters                                                              *)
(*                                                                         *)
(* The characters of the model are chr(1) .. chr(255), Chr[c] being        *)
(* chr(c).  The backquote, chr(96), cannot be written in a TLA+ string:    *)
(* its place holds the empty string.  What the conversions below do on a   *)
(* character outside this alphabet is left undefined wherever Python       *)
(* looks at the character's class (space, digit).                          *)
(***************************************************************************)
Chr ==
    << "", "", "", "", "", "", "", "", "\t", "\n",
       "", "\f", "\r", "", "", "", "", "", "", "",
       "", "", "", "", "", "", "", "", "", "",
       "", " ", "!", "\"", "#", "$", "%", "&", "'", "(",
       ")", "*", "+", ",", "-", ".", "/", "0", "1", "2",
       "3", "4", "5", "6", "7", "8", "9", ":", ";", "<",
       "=", ">", "?", "@", "A", "B", "C", "D", "E", "F",
       "G", "H", "I", "J", "K", "L", "M", "N", "O", "P",
       "Q", "R", "S", "T", "U", "V", "W", "X", "Y", "Z",
       "[", "\\", "]", "^", "_", "", "a", "b", "c", "d",
       "e", "f", "g", "h", "i", "j", "k", "l", "m", "n",
       "o", "p", "q", "r", "s", "t", "u", "v", "w", "x",
       "y", "z", "{", "|", "}", "~", "", "", "", "",
       "", "", "", "", "", "", "", "", "", "",
       "", "", "", "", "", "", "", "", "", "",
       "", "", "", "", "", "", "", "", "", " ",
       "¡", "¢", "£", "¤", "¥", "¦", "§", "¨", "©", "ª",
       "«", "¬", "­", "®", "¯", "°", "±", "²", "³", "´",
       "µ", "¶", "·", "¸", "¹", "º", "»", "¼", "½", "¾",
       "¿", "À", "Á", "Â", "Ã", "Ä", "Å", "Æ", "Ç", "È",
       "É", "Ê", "Ë", "Ì", "Í", "Î", "Ï", "Ð", "Ñ", "Ò",
       "Ó", "Ô", "Õ", "Ö", "×", "Ø", "Ù", "Ú", "Û", "Ü",
       "Ý", "Þ", "ß", "à", "á", "â", "ã", "ä", "å", "æ",
       "ç", "è", "é", "ê", "ë", "ì", "í", "î", "ï", "ð",
       "ñ", "ò", "ó", "ô", "õ", "ö", "÷", "ø", "ù", "ú",
       "û", "ü", "ý", "þ", "ÿ" >>

Alphabet == {Chr[c] : c \in 1..255} \ {""}

\* ord(ch); no value for a character outside the alphabet
Ord(ch) == CHOOSE c \in 1..255 : Chr[c] = ch

\* TRUE on the alphabet, no value outside it
Known(ch) == ch \in Alphabet \/ Ord(ch) > 0

\* the characters of a word, as text
Chars(word) == [i \in 1..Len(word) |-> SubSeq(word, i, i)]

Digits == <<"0", "1", "2", "3", "4", "5", "6", "7", "8", "9">>

DigitSet == {Digits[d] : d \in 1..10}

\* a decimal digit: of the alphabet, only 0-9 are
IsDigit(c) == Known(c) /\ c \in DigitSet

DigitVal(c) == (CHOOSE d \in 1..10 : Digits[d] = c) - 1

\* the white space int() and float() skip around a number: \t \n \v \f \r,
\* the space, and the spaces beyond ASCII (of the alphabet: chr(133), chr(160)).
\* It is not the white space of str.strip(): chr(28) .. chr(31) are none of it.
NumberSpace == {Chr[c] : c \in {9, 10, 11, 12, 13, 32, 133, 160}}

IsSpace(c) == Known(c) /\ c \in NumberSpace

\* c.lower() of an ASCII letter, c otherwise
Lower(c) == IF Ord(c) \in 65..90 THEN Chr[Ord(c) + 32] ELSE c

\* stands where Python holds a value the model cannot: an int beyond the
\* integers at hand, a float of more digits than they hold or in the subnormal
\* range, a character outside the alphabet.  It has no value.
Unrepresentable(what) == CHOOSE v \in {} : v = what

(***************************************************************************)
(* Text: str(), int(), float()                                             *)
(***************************************************************************)
\* the most digits a number read from a text has in the model
MaxDigits == 9

RECURSIVE NatToStr(_)
NatToStr(n) ==
    IF n < 10 THEN <<Digits[n + 1]>>
    ELSE NatToStr(n \div 10) \o <<Digits[(n % 10) + 1]>>

\* str(n) of an int
IntToStr(n) == IF n < 0 THEN <<"-">> \o NatToStr(-n) ELSE NatToStr(n)

RECURSIVE Pow10(_)
Pow10(e) == IF e = 0 THEN 1 ELSE 10 * Pow10(e - 1)

RECURSIVE PadZeros(_, _)
PadZeros(s, width) == IF Len(s) >= width THEN s ELSE PadZeros(<<"0">> \o s, width)

Zeros(n) == [i \in 1..n |-> "0"]

RECURSIVE DropLeadingZeros(_)
DropLeadingZeros(ds) ==
    IF ds # <<>> /\ Head(ds) = "0" THEN DropLeadingZeros(Tail(ds)) ELSE ds

RECURSIVE DropTrailingZeros(_)
DropTrailingZeros(ds) ==
    IF ds # <<>> /\ ds[Len(ds)] = "0"
    THEN DropTrailingZeros(SubSeq(ds, 1, Len(ds) - 1)) ELSE ds

\* the number a sequence of digits writes; 0 for no digits
RECURSIVE NatOf(_)
NatOf(ds) ==
    IF ds = <<>> THEN 0
    ELSE NatOf(SubSeq(ds, 1, Len(ds) - 1)) * 10 + DigitVal(ds[Len(ds)])

\* repr(x) of the finite float m / 10^e: the shortest decimal that reads back
\* as x, in exponent notation when x < 1e-4 or x >= 1e16
FloatToStr(m, e) ==
    LET all == NatToStr(IF m < 0 THEN -m ELSE m)
        ds == DropTrailingZeros(all)
        n == Len(ds)
        decpt == Len(all) - e
        x == decpt - 1
        body ==
            IF m = 0 THEN <<"0", ".", "0">>
            ELSE IF decpt > -4 /\ decpt <= 16
            THEN IF decpt <= 0 THEN <<"0", ".">> \o Zeros(-decpt) \o ds
                 ELSE IF decpt >= n THEN ds \o Zeros(decpt - n) \o <<".", "0">>
                 ELSE SubSeq(ds, 1, decpt) \o <<".">> \o SubSeq(ds, decpt + 1, n)
            ELSE <<ds[1]>> \o (IF n > 1 THEN <<".">> \o SubSeq(ds, 2, n) ELSE <<>>)
                 \o <<"e", IF x < 0 THEN "-" ELSE "+">>
                 \o PadZeros(NatToStr(IF x < 0 THEN -x ELSE x), 2)
    IN  (IF m < 0 THEN <<"-">> ELSE <<>>) \o body

\* repr(x) of a float
FloatRepr(value) ==
    IF value = PyNan THEN Chars("nan")
    ELSE IF value = PyInf(FALSE) THEN Chars("inf")
    ELSE IF value = PyInf(TRUE) THEN Chars("-inf")
    ELSE IF value = PyNegZero THEN Chars("-0.0")
    ELSE FloatToStr(value.n, value.e)

\* the float m / 10^e in its normal form
RECURSIVE NormFloat(_, _)
NormFloat(m, e) ==
    IF m = 0 THEN PyFloat(0, 0)
    ELSE IF m % 10 = 0 THEN NormFloat(m \div 10, e - 1)
    ELSE PyFloat(m, e)

\* the first digits of 2^1024 - 2^970 = 1.7976931348623158079...e308, the least
\* number that float() rounds to inf
Overflow == Chars("17976931348623158079")

\* whether the digits ds, of at most as many digits as Overflow, read as
\* d.ddd, are a number above Overflow
Overflows(ds) ==
    LET d == [i \in 1..Len(Overflow) |-> IF i <= Len(ds) THEN ds[i] ELSE "0"]
    IN  \E i \in 1..Len(Overflow) :
            /\ DigitVal(d[i]) > DigitVal(Overflow[i])
            /\ \A j \in 1..(i - 1) : d[j] = Overflow[j]

\* the float nearest to (-1)^neg * digits / 10^e0: inf beyond the largest double
\* 1.7976931348623157e308, zero below the smallest 5e-324.  A float of more
\* than MaxDigits digits, or below 1e-307 (where doubles lose digits), is
\* none of the model.
MakeFloat(neg, digits, e0) ==
    LET lead == DropLeadingZeros(digits)
        ds == DropTrailingZeros(lead)
        e == e0 - (Len(lead) - Len(ds))
        x == Len(ds) - e - 1
    IN  IF ds = <<>> THEN (IF neg THEN PyNegZero ELSE PyFloat(0, 0))
        ELSE IF x > 308 THEN PyInf(neg)
        ELSE IF x < -324 THEN (IF neg THEN PyNegZero ELSE PyFloat(0, 0))
        ELSE IF x < -307 \/ Len(ds) > MaxDigits THEN Unrepresentable(<<neg, ds, e>>)
        ELSE IF x = 308 /\ Overflows(ds) THEN PyInf(neg)
        ELSE PyFloat(IF neg THEN -NatOf(ds) ELSE NatOf(ds), e)

RECURSIVE StripLeft(_)
StripLeft(s) == IF s # <<>> /\ IsSpace(Head(s)) THEN StripLeft(Tail(s)) ELSE s

RECURSIVE StripRight(_)
StripRight(s) ==
    IF s # <<>> /\ IsSpace(s[Len(s)]) THEN StripRight(SubSeq(s, 1, Len(s) - 1)) ELSE s

\* the text int() and float() read: s without the white space around it
Strip(s) == StripRight(StripLeft(s))

\* the position after the digits that start at position i of s, single
\* underscores between digits included; i when no digit stands at i
RECURSIVE DigitPartEnd(_, _)
DigitPartEnd(s, i) ==
    IF i > Len(s) \/ ~IsDigit(s[i]) THEN i
    ELSE IF i + 1 <= Len(s) /\ IsDigit(s[i + 1]) THEN DigitPartEnd(s, i + 1)
    ELSE IF i + 2 <= Len(s) /\ s[i + 1] = "_" /\ IsDigit(s[i + 2])
         THEN DigitPartEnd(s, i + 2)
    ELSE i + 1

\* the digits of s[from .. to - 1]
DigitsOf(s, from, to) == SelectSeq(SubSeq(s, from, to - 1), IsDigit)

HasSign(s) == s # <<>> /\ Head(s) \in {"+", "-"}

\* int(s) of a str: white space, optional sign, digits, white space
StrToInt(s) ==
    LET b == Strip(s)
        body == IF HasSign(b) THEN Tail(b) ELSE b
        end == DigitPartEnd(body, 1)
        ds == DropLeadingZeros(DigitsOf(body, 1, end))
        n == NatOf(ds)
    IN  IF body = <<>> \/ end # Len(body) + 1 THEN Raise("ValueError")
        ELSE IF Len(ds) > MaxDigits THEN Unrepresentable(ds)
        ELSE PyInt(IF Head(b) = "-" THEN -n ELSE n)

\* whether body is word in some case
IsWord(body, word) ==
    /\ Len(body) = Len(word)
    /\ \A i \in 1..Len(word) : Lower(body[i]) = word[i]

\* the float of a number text without its sign: its digits end before i1, its
\* fraction, if it has a point, before f1, and the digits of its exponent,
\* if it has one, stand from x0 to before x1
FloatOfNumber(neg, body, i1, f1, x0, x1) ==
    LET hasExp == f1 <= Len(body) /\ body[f1] \in {"e", "E"}
        xAbs == IF hasExp THEN NatOf(DigitsOf(body, x0, x1)) ELSE 0
        whole == DigitsOf(body, 1, i1)
        frac == IF f1 > i1 THEN DigitsOf(body, i1 + 1, f1) ELSE <<>>
    IN  IF \/ whole \o frac = <<>>
           \/ hasExp /\ x1 = x0
           \/ (IF hasExp THEN x1 ELSE f1) # Len(body) + 1
        THEN Raise("ValueError")
        ELSE MakeFloat(neg, whole \o frac,
                       Len(frac) - (IF hasExp /\ body[f1 + 1] = "-" THEN -xAbs ELSE xAbs))

\* the exponent: e or E, an optional sign, digits
FloatExponent(neg, body, i1, f1, x0) ==
    FloatOfNumber(neg, body, i1, f1, x0, DigitPartEnd(body, x0))

\* the fraction: a point and, optionally, digits
FloatFraction(neg, body, i1, f1) ==
    FloatExponent(neg, body, i1, f1,
        IF f1 + 1 <= Len(body) /\ body[f1 + 1] \in {"+", "-"} THEN f1 + 2 ELSE f1 + 1)

\* the float of a text without its sign: inf, infinity or nan in any case, or
\* digits with an optional fraction and an optional exponent
FloatOfBody(neg, body, i1) ==
    IF IsWord(body, Chars("inf")) \/ IsWord(body, Chars("infinity")) THEN PyInf(neg)
    ELSE IF IsWord(body, Chars("nan")) THEN PyNan
    ELSE FloatFraction(neg, body, i1,
            IF i1 <= Len(body) /\ body[i1] = "." THEN DigitPartEnd(body, i1 + 1) ELSE i1)

\* the float of a text without the white space around it
FloatOfText(b, body) == FloatOfBody(b # <<>> /\ Head(b) = "-", body, DigitPartEnd(body, 1))

Unsigned(b) == IF HasSign(b) THEN Tail(b) ELSE b

\* float(s) of a str: white space, optional sign, number, white space
StrToFloat(s) == FloatOfText(Strip(s), Unsigned(Strip(s)))

\* the int nearest to zero from the finite float m / 10^e
Truncate(m, e) ==
    LET a == IF m < 0 THEN -m ELSE m
        t == IF e <= 0
             THEN IF Len(NatToStr(a)) - e > MaxDigits THEN Unrepresentable(<<m, e>>)
                  ELSE a * Pow10(-e)
             ELSE IF e >= Len(NatToStr(a)) THEN 0
             ELSE a \div Pow10(e)
    IN  IF m < 0 THEN -t ELSE t

\* int(x)
PyIntOf(value) ==
    CASE value.t = "str" -> StrToInt(value.s)
      [] value.t \in {"int", "bool"} -> PyInt(value.n)
      [] value.t = "float" ->
            IF value = PyNan THEN Raise("ValueError")
            ELSE IF value \in {PyInf(FALSE), PyInf(TRUE)} THEN Raise("OverflowError")
            ELSE IF value = PyNegZero THEN PyInt(0)
            ELSE PyInt(Truncate(value.n, value.e))
      [] OTHER -> Raise("TypeError")

\* float(x)
PyFloatOf(value) ==
    CASE value.t = "str" -> StrToFloat(value.s)
      [] value.t \in {"int", "bool"} -> NormFloat(value.n, 0)
      [] value.t = "float" -> value
      [] OTHER -> Raise("TypeError")

\* str(x) of line 50, where x is an int, a float or a bool
PyStrOf(value) ==
    CASE value.t = "bool" -> PyStr(IF value.n = 1 THEN Chars("True") ELSE Chars("False"))
      [] value.t = "int" -> PyStr(IntToStr(value.n))
      [] value.t = "float" -> PyStr(FloatRepr(value))

(***************************************************************************)
(* json.dumps and json.loads                                               *)
(***************************************************************************)
HexDigits == Chars("0123456789abcdef")

\* the four hexadecimal digits of n
Hex4(n) ==
    <<HexDigits[((n \div 4096) % 16) + 1], HexDigits[((n \div 256) % 16) + 1],
      HexDigits[((n \div 16) % 16) + 1], HexDigits[(n % 16) + 1]>>

\* the characters json.dumps copies into a string: ASCII from the space to ~,
\* but for the quote and the backslash
PlainChars == {Chr[c] : c \in 32..126} \ {"", "\"", "\\"}

\* how json.dumps (ensure_ascii) writes the character c of a string
JsonEscape(c) ==
    IF c \in PlainChars THEN <<c>>
    ELSE CASE c = "\"" -> <<"\\", "\"">>
           [] c = "\\" -> <<"\\", "\\">>
           [] c = "\n" -> <<"\\", "n">>
           [] c = "\r" -> <<"\\", "r">>
           [] c = "\t" -> <<"\\", "t">>
           [] c = "\f" -> <<"\\", "f">>
           [] c = Chr[8] -> <<"\\", "b">>
           [] OTHER -> <<"\\", "u">> \o Hex4(Ord(c))

RECURSIVE JsonQuote(_, _)
\* the escaped text of the characters of s from position i on
JsonQuote(s, i) ==
    IF i > Len(s) THEN <<>> ELSE JsonEscape(s[i]) \o JsonQuote(s, i + 1)

RECURSIVE JsonDumps(_)
RECURSIVE JsonDumpItems(_, _)
RECURSIVE JsonDumpPairs(_, _)
\* json.dumps(value), with the default separators ", " and ": "
JsonDumps(value) ==
    CASE value.t = "NoneType" -> Chars("null")
      [] value.t = "bool" -> IF value.n = 1 THEN Chars("true") ELSE Chars("false")
      [] value.t = "int" -> IntToStr(value.n)
      [] value.t = "float" ->
            IF value = PyNan THEN Chars("NaN")
            ELSE IF value = PyInf(FALSE) THEN Chars("Infinity")
            ELSE IF value = PyInf(TRUE) THEN Chars("-Infinity")
            ELSE FloatRepr(value)
      [] value.t = "str" -> <<"\"">> \o JsonQuote(value.s, 1) \o <<"\"">>
      [] value.t = "list" -> <<"[">> \o JsonDumpItems(value.l, 1) \o <<"]">>
      [] value.t = "dict" -> <<"{">> \o JsonDumpPairs(value.l, 1) \o <<"}">>

JsonDumpItems(l, i) ==
    IF i > Len(l) THEN <<>>
    ELSE (IF i > 1 THEN <<",", " ">> ELSE <<>>) \o JsonDumps(l[i]) \o JsonDumpItems(l, i + 1)

JsonDumpPairs(l, i) ==
    IF i > Len(l) THEN <<>>
    ELSE (IF i > 1 THEN <<",", " ">> ELSE <<>>)
         \o <<"\"">> \o JsonQuote(l[i].k, 1) \o <<"\"", ":", " ">> \o JsonDumps(l[i].v)
         \o JsonDumpPairs(l, i + 1)

\* the white space of JSON
JsonSpace == {" ", "\t", "\n", "\r"}

RECURSIVE SkipWs(_, _)
SkipWs(s, i) == IF i <= Len(s) /\ s[i] \in JsonSpace THEN SkipWs(s, i + 1) ELSE i

\* whether word stands in s at position i
StandsAt(s, i, word) ==
    /\ i + Len(word) - 1 <= Len(s)
    /\ SubSeq(s, i, i + Len(word) - 1) = word

\* the first position from i on that holds no digit
RECURSIVE DigitsEnd(_, _)
DigitsEnd(s, i) == IF i <= Len(s) /\ IsDigit(s[i]) THEN DigitsEnd(s, i + 1) ELSE i

JsonFail == [ok |-> FALSE, v |-> PyNone, i |-> 0]

JsonOk(v, i) == [ok |-> TRUE, v |-> v, i |-> i]

\* the characters a raw JSON string may not hold: chr(1) .. chr(31)
ControlChars == {Chr[c] : c \in 1..31}

\* the character an escape \c stands for; "" when there is no such escape
Unescape(c) ==
    CASE c = "\"" -> "\"" [] c = "\\" -> "\\" [] c = "/" -> "/"
      [] c = "b" -> Chr[8] [] c = "f" -> "\f" [] c = "n" -> "\n"
      [] c = "r" -> "\r" [] c = "t" -> "\t" [] OTHER -> ""

\* the value of a hexadecimal digit, -1 for any other character
HexVal(c) ==
    IF c \in DigitSet THEN DigitVal(c)
    ELSE CASE c \in {"a", "A"} -> 10 [] c \in {"b", "B"} -> 11 [] c \in {"c", "C"} -> 12
           [] c \in {"d", "D"} -> 13 [] c \in {"e", "E"} -> 14 [] c \in {"f", "F"} -> 15
           [] OTHER -> -1

\* the number of the four hexadecimal digits of s from position i; -1 if
\* fewer than four stand there
Hex4At(s, i) ==
    IF i + 3 > Len(s) \/ \E j \in i..(i + 3) : HexVal(s[j]) < 0 THEN -1
    ELSE HexVal(s[i]) * 4096 + HexVal(s[i + 1]) * 256 + HexVal(s[i + 2]) * 16
         + HexVal(s[i + 3])

\* chr(c) for the \uXXXX of a JSON string
CharOf(c) == IF c \in 1..255 /\ c # 96 THEN Chr[c] ELSE Unrepresentable(c)

\* the JSON string whose text starts at position i of s (after its opening
\* quote), acc being the characters read so far, and the position after its
\* closing quote
RECURSIVE JsonString(_, _, _)
JsonString(s, i, acc) ==
    IF i > Len(s) THEN JsonFail
    ELSE IF s[i] = "\"" THEN JsonOk(PyStr(acc), i + 1)
    ELSE IF s[i] \in ControlChars THEN JsonFail
    ELSE IF s[i] # "\\" THEN JsonString(s, i + 1, Append(acc, s[i]))
    ELSE IF i + 1 > Len(s) THEN JsonFail
    ELSE IF s[i + 1] = "u"
         THEN IF Hex4At(s, i + 2) < 0 THEN JsonFail
              ELSE JsonString(s, i + 6, Append(acc, CharOf(Hex4At(s, i + 2))))
    ELSE IF Unescape(s[i + 1]) = "" THEN JsonFail
    ELSE JsonString(s, i + 2, Append(acc, Unescape(s[i + 1])))

\* the JSON number of s whose digits stand from b to before w, its fraction,
\* if it has one, from w + 1 to before f, and the digits of its exponent, if
\* it has one, from x0 to before x1: an int when it has neither fraction nor
\* exponent, else the float of its text
JsonNumberOf(s, neg, b, w, f, x0, x1) ==
    LET hasExp == x1 > x0
        xAbs == IF hasExp THEN NatOf(SubSeq(s, x0, x1 - 1)) ELSE 0
        whole == SubSeq(s, b, w - 1)
        frac == IF f > w THEN SubSeq(s, w + 1, f - 1) ELSE <<>>
    IN  IF w = b THEN JsonFail
        ELSE IF f > w \/ hasExp
             THEN JsonOk(MakeFloat(neg, whole \o frac,
                            Len(frac) - (IF hasExp /\ s[f + 1] = "-" THEN -xAbs ELSE xAbs)),
                         IF hasExp THEN x1 ELSE f)
        ELSE IF Len(whole) > MaxDigits THEN Unrepresentable(whole)
        ELSE JsonOk(PyInt(IF neg THEN -NatOf(whole) ELSE NatOf(whole)), w)

\* the exponent ([eE] [+-]? [0-9]+)?
JsonExponent(s, neg, b, w, f, x0) ==
    JsonNumberOf(s, neg, b, w, f, x0,
        IF f <= Len(s) /\ s[f] \in {"e", "E"} THEN DigitsEnd(s, x0) ELSE x0)

\* the fraction (. [0-9]+)?
JsonFraction(s, neg, b, w, f) ==
    JsonExponent(s, neg, b, w, f,
        IF f + 1 <= Len(s) /\ s[f + 1] \in {"+", "-"} THEN f + 2 ELSE f + 1)

\* the digits (0 | [1-9][0-9]*)
JsonDigits(s, neg, b, w) ==
    JsonFraction(s, neg, b, w,
        IF w + 1 <= Len(s) /\ s[w] = "." /\ IsDigit(s[w + 1])
        THEN DigitsEnd(s, w + 1) ELSE w)

JsonSigned(s, neg, b) ==
    JsonDigits(s, neg, b, IF b <= Len(s) /\ s[b] = "0" THEN b + 1 ELSE DigitsEnd(s, b))

\* a JSON number at position i:
\* -? (0 | [1-9][0-9]*) (. [0-9]+)? ([eE] [+-]? [0-9]+)?
JsonNumber(s, i) == JsonSigned(s, s[i] = "-", IF s[i] = "-" THEN i + 1 ELSE i)

\* the pairs of a dict after d[k] = v: a key keeps its place, a new key is last
DictPut(pairs, k, v) ==
    IF \E j \in 1..Len(pairs) : pairs[j].k = k
    THEN [j \in 1..Len(pairs) |-> IF pairs[j].k = k THEN [k |-> k, v |-> v] ELSE pairs[j]]
    ELSE Append(pairs, [k |-> k, v |-> v])

RECURSIVE JsonValue(_, _)
RECURSIVE JsonItems(_, _, _)
RECURSIVE JsonPairs(_, _, _)

\* what follows an item of an array, at position j: "]" or ","
JsonItemsSep(s, items, j) ==
    IF j > Len(s) THEN JsonFail
    ELSE IF s[j] = "]" THEN JsonOk(PyList(items), j + 1)
    ELSE IF s[j] = "," THEN JsonItems(s, SkipWs(s, j + 1), items)
    ELSE JsonFail

JsonItemsNext(s, acc, item) ==
    IF ~item.ok THEN JsonFail
    ELSE JsonItemsSep(s, Append(acc, item.v), SkipWs(s, item.i))

\* the items of an array from position i on, up to and including its "]"
JsonItems(s, i, acc) == JsonItemsNext(s, acc, JsonValue(s, i))

\* what follows a pair of an object, at position j: the closing brace or ","
JsonPairsSep(s, pairs, j) ==
    IF j > Len(s) THEN JsonFail
    ELSE IF s[j] = "}" THEN JsonOk(PyDictOf(pairs), j + 1)
    ELSE IF s[j] = "," THEN JsonPairs(s, SkipWs(s, j + 1), pairs)
    ELSE JsonFail

JsonPairValue(s, acc, k, item) ==
    IF ~item.ok THEN JsonFail
    ELSE JsonPairsSep(s, DictPut(acc, k, item.v), SkipWs(s, item.i))

\* the ":" after a key, at position c, and the value after it
JsonPairColon(s, acc, k, c) ==
    IF c > Len(s) \/ s[c] # ":" THEN JsonFail
    ELSE JsonPairValue(s, acc, k, JsonValue(s, SkipWs(s, c + 1)))

JsonPairKey(s, acc, key) ==
    IF ~key.ok THEN JsonFail
    ELSE JsonPairColon(s, acc, key.v.s, SkipWs(s, key.i))

\* the "key": value pairs of an object from position i on, up to and including
\* its closing brace
JsonPairs(s, i, acc) ==
    IF i > Len(s) \/ s[i] # "\"" THEN JsonFail
    ELSE JsonPairKey(s, acc, JsonString(s, i + 1, <<>>))

\* the value at position i that is neither string, object, array, null, true
\* nor false: the number num, if there is one, or NaN, Infinity or -Infinity
JsonNumberOrWord(s, i, num) ==
    IF num.ok THEN num
    ELSE IF StandsAt(s, i, Chars("NaN")) THEN JsonOk(PyNan, i + 3)
    ELSE IF StandsAt(s, i, Chars("Infinity")) THEN JsonOk(PyInf(FALSE), i + 8)
    ELSE IF StandsAt(s, i, Chars("-Infinity")) THEN JsonOk(PyInf(TRUE), i + 9)
    ELSE JsonFail

\* the object or array that opens at position i - 1, j being the position
\* of what follows the white space after the opening
JsonObject(s, j) ==
    IF j <= Len(s) /\ s[j] = "}" THEN JsonOk(PyDict, j + 1) ELSE JsonPairs(s, j, <<>>)

JsonArray(s, j) ==
    IF j <= Len(s) /\ s[j] = "]" THEN JsonOk(PyList(<<>>), j + 1) ELSE JsonItems(s, j, <<>>)

\* the JSON value that starts at position i of s, and the position after it
JsonValue(s, i) ==
    IF i > Len(s) THEN JsonFail
    ELSE IF s[i] = "\"" THEN JsonString(s, i + 1, <<>>)
    ELSE IF s[i] = "{" THEN JsonObject(s, SkipWs(s, i + 1))
    ELSE IF s[i] = "[" THEN JsonArray(s, SkipWs(s, i + 1))
    ELSE IF StandsAt(s, i, Chars("null")) THEN JsonOk(PyNone, i + 4)
    ELSE IF StandsAt(s, i, Chars("true")) THEN JsonOk(PyBool(TRUE), i + 4)
    ELSE IF StandsAt(s, i, Chars("false")) THEN JsonOk(PyBool(FALSE), i + 5)
    ELSE JsonNumberOrWord(s, i, JsonNumber(s, i))

\* the value r of a document s, if the document ends after it
JsonDocument(s, r) ==
    IF r.ok /\ SkipWs(s, r.i) > Len(s) THEN r.v ELSE Raise("ValueError")

\* json.loads(x): a str is parsed, anything else is a TypeError
JsonLoads(value) ==
    IF value.t # "str" THEN Raise("TypeError")
    ELSE JsonDocument(value.s, JsonValue(value.s, SkipWs(value.s, 1)))

(***************************************************************************)
(* SettingsProxy: the typed conversions and the default table              *)
(***************************************************************************)
DEFAULTS ==
    [k \in {"user_mail_required", "max_items_per_order",
            "attendee_names_asked", "attendee_names_required"} |->
        CASE k = "user_mail_required" -> Chars("False")
          [] k = "max_items_per_order" -> <<"1", "0">>
          [] k = "attendee_names_asked" -> Chars("True")
          [] k = "attendee_names_required" -> Chars("False")]

\* a faulty unserialize: bool by truthiness, every non-empty string is True
unserialize_Truthy(value, as_type) ==
    IF IsInstance(value, as_type) THEN value
    ELSE IF as_type = "int" THEN PyIntOf(value)
    ELSE IF as_type = "float" THEN PyFloatOf(value)
    ELSE IF as_type = "dict" \/ as_type = "list" THEN JsonLoads(value)
    ELSE IF as_type = "bool" THEN PyBool(value.t = "str" /\ value.s # <<>>)
    ELSE value

\* SettingsProxy._unserialize
unserialize(value, as_type) ==
    IF IsInstance(value, as_type) THEN value
    ELSE IF as_type = "int" THEN PyIntOf(value)
    ELSE IF as_type = "float" THEN PyFloatOf(value)
    ELSE IF as_type = "dict" \/ as_type = "list" THEN JsonLoads(value)
    ELSE IF as_type = "bool" THEN PyBool(value = PyStr(Chars("True")))
    ELSE value

\* a faulty serialize: the list-or-bool branch is tried before the number branch
serialize_ListBranchFirst(value) ==
    IF IsInstance(value, "str") THEN value
    ELSE IF IsInstance(value, "list") \/ IsInstance(value, "bool")
         THEN PyStr(JsonDumps(value))
    ELSE IF IsInstance(value, "int") \/ IsInstance(value, "float") THEN PyStrOf(value)
    ELSE Raise("TypeError")

\* SettingsProxy._serialize
serialize(value) ==
    IF IsInstance(value, "str") THEN value
    ELSE IF IsInstance(value, "int") \/ IsInstance(value, "float")
            \/ IsInstance(value, "bool") THEN PyStrOf(value)
    ELSE IF IsInstance(value, "list") \/ IsInstance(value, "bool")
         THEN PyStr(JsonDumps(value))
    ELSE Raise("TypeError")

(***************************************************************************)
(* The owners and their store                                              *)
(*                                                                         *)
(* Owners form one chain: owner 1 has no parent, owner i has parent i - 1. *)
(* Each owner object carries one SettingsProxy (its `settings`), so a      *)
(* proxy is named by its owner.  The store holds the current Setting       *)
(* records; a record is [id, object, key, value].                          *)
(***************************************************************************)
ChainDepth == 3

MaxRecords == 1

Inst == 1..ChainDepth

\* self._obj of proxy i
Obj(i) == i

\* the proxy self._parent.settings of proxy i; 0 when self._parent is None
Parent(i) == i - 1

\* the records the store may hold before the first operation
SeedRecords ==
    { [id |-> 1, object |-> 1, key |-> "max_items_per_order", value |-> <<"5">>],
      [id |-> 2, object |-> 2, key |-> "plugin_foo_bar",
       value |-> <<"[", "1", ",", " ", "2", "]">>],
      [id |-> 3, object |-> 3, key |-> "max_items_per_order", value |-> <<"3">>] }

FirstId == Cardinality(SeedRecords) + 1

VARIABLES store, nextId, cached_obj, loads

vars == <<store, nextId, cached_obj, loads>>

NoCalls == [clone |-> 0, create |-> 0, save |-> 0, delete |-> 0]

\* the store calls that fail during an operation: none.  With load set, the
\* enumeration current.all() raises after it has yielded the records in seen.
NoFaults == [load |-> FALSE, seen |-> {}, save |-> FALSE, delete |-> FALSE]

\* the state the handlers work on, with the collaborator calls of this
\* operation, the store calls that will fail in it, and the exception a store
\* call has raised (None: none)
World ==
    [store |-> store, nextId |-> nextId, cached_obj |-> cached_obj,
     loads |-> loads, calls |-> NoCalls, faults |-> NoFaults, exc |-> PyNone]

EmptyDict == [k \in {} |-> 0]

DictSet(d, key, x) == [k \in DOMAIN d \cup {key} |-> IF k = key THEN x ELSE d[k]]

DictDel(d, key) == [k \in DOMAIN d \ {key} |-> d[k]]

\* self._obj.setting_objects.current.all()
CurrentAll(w, i) == {r \in w.store : r.object = Obj(i)}

\* the records of a set in the order the store yields them: by id
RECURSIVE InStoreOrder(_)
InStoreOrder(records) ==
    IF records = {} THEN <<>>
    ELSE LET first == CHOOSE r \in records : \A q \in records : r.id <= q.id
         IN  <<first>> \o InStoreOrder(records \ {first})

\* the dict the loop of _cache builds from the sequence of records it
\* enumerates: of two records of one key, the later one stays
RECURSIVE DictOf(_)
DictOf(records) ==
    IF records = <<>> THEN EmptyDict
    ELSE LET n == Len(records)
         IN  DictSet(DictOf(SubSeq(records, 1, n - 1)), records[n].key, records[n])

\* a faulty NewSetting: the record is scoped to the parent owner
NewSetting_OnParent(i, key) ==
    [id |-> 0, object |-> Obj(IF i > 1 THEN i - 1 ELSE i + 1), key |-> key,
     value |-> <<>>, pred |-> 0]

\* an unsaved Setting: self._type(object=self._obj, key=key)
NewSetting(i, key) ==
    [id |-> 0, object |-> Obj(i), key |-> key, value |-> <<>>, pred |-> 0]

\* Setting.clone(): a new, unsaved record that succeeds rec
Clone(rec) ==
    [id |-> 0, object |-> rec.object, key |-> rec.key, value |-> rec.value,
     pred |-> rec.id]

\* Setting.save(): the record becomes current, the one it succeeds history;
\* a failing save raises and persists nothing
Save(w, s) ==
    LET rec == [id |-> w.nextId, object |-> s.object, key |-> s.key, value |-> s.value]
    IN  IF w.faults.save
        THEN [w |-> [w EXCEPT !.calls.save = @ + 1, !.exc = Raise("StoreError")],
              rec |-> rec]
        ELSE [w |-> [w EXCEPT !.store = {r \in @ : r.id # s.pred} \cup {rec},
                              !.nextId = @ + 1,
                              !.calls.save = @ + 1],
              rec |-> rec]

\* Setting.delete(): the record is no longer current; a failing delete raises
\* and leaves the record current
DeleteRecord(w, rec) ==
    IF w.faults.delete
    THEN [w EXCEPT !.calls.delete = @ + 1, !.exc = Raise("StoreError")]
    ELSE [w EXCEPT !.store = {r \in @ : r.id # rec.id}, !.calls.delete = @ + 1]

(***************************************************************************)
(* SettingsProxy: the handlers, as functions of the state                  *)
(***************************************************************************)
\* a faulty cache: `if not self._cached_obj`, so an empty cache is loaded again
cache_ReloadsEmpty(w, i) ==
    IF w.cached_obj[i].none \/ DOMAIN w.cached_obj[i].d = {}
    THEN [w EXCEPT !.cached_obj[i] = [none |-> FALSE, d |-> DictOf(InStoreOrder(CurrentAll(w, i)))],
                   !.loads[i] = @ + 1]
    ELSE w

\* a faulty cache: the records are enumerated on every call
cache_AlwaysLoads(w, i) ==
    [w EXCEPT !.cached_obj[i] = [none |-> FALSE, d |-> DictOf(InStoreOrder(CurrentAll(w, i)))],
              !.loads[i] = @ + 1]

\* SettingsProxy._cache: the state after the call; the dict it returns is
\* cached_obj[i].d of that state.  _cached_obj is {} from line 28 on, and the
\* loop of lines 29-30 fills it; when the enumeration raises, the entries
\* filled so far stay and the exception leaves the call.
cache(w, i) ==
    IF w.cached_obj[i].none
    THEN IF w.faults.load
         THEN [w EXCEPT !.cached_obj[i] =
                            [none |-> FALSE,
                             d |-> DictOf(InStoreOrder(CurrentAll(w, i) \cap w.faults.seen))],
                        !.loads[i] = @ + 1,
                        !.exc = Raise("StoreError")]
         ELSE [w EXCEPT !.cached_obj[i] =
                            [none |-> FALSE, d |-> DictOf(InStoreOrder(CurrentAll(w, i)))],
                        !.loads[i] = @ + 1]
    ELSE w

Result(w, ret) == [w |-> w, ret |-> ret]

RECURSIVE get(_, _, _, _, _)
\* a faulty get: the parent is asked for its own records only, not for its
\* resolution of the key
get_OneLevel(w, i, key, default, as_type) ==
    LET w1 == cache(w, i)
        p == Parent(i)
        wp == IF p # 0 THEN cache(w1, p) ELSE w1
        value == IF p # 0 /\ key \in DOMAIN wp.cached_obj[p].d
                 THEN PyStr(wp.cached_obj[p].d[key].value)
                 ELSE PyNone
    IN  IF key \in DOMAIN w1.cached_obj[i].d
        THEN Result(w1, unserialize(PyStr(w1.cached_obj[i].d[key].value), as_type))
        ELSE IF value = PyNone /\ key \in DOMAIN DEFAULTS
             THEN Result(wp, unserialize(PyStr(DEFAULTS[key]), as_type))
        ELSE IF value = PyNone /\ default # PyNone
             THEN Result(wp, unserialize(default, as_type))
        ELSE Result(wp, unserialize(value, as_type))

\* a faulty get: the caller's default is tried before the default table
get_CallerDefaultFirst(w, i, key, default, as_type) ==
    LET w1 == cache(w, i)
    IN  IF key \in DOMAIN w1.cached_obj[i].d
        THEN Result(w1, unserialize(PyStr(w1.cached_obj[i].d[key].value), as_type))
        ELSE LET up == IF Parent(i) # 0
                       THEN get(w1, Parent(i), key, PyNone, "str")
                       ELSE Result(w1, PyNone)
                 value == up.ret
             IN  IF value = PyNone /\ default # PyNone
                 THEN Result(up.w, unserialize(default, as_type))
                 ELSE IF value = PyNone /\ key \in DOMAIN DEFAULTS
                      THEN Result(up.w, unserialize(PyStr(DEFAULTS[key]), as_type))
                 ELSE Result(up.w, unserialize(value, as_type))

\* a faulty get: a value found on the parent is kept in the child's cache
get_CachesInherited(w, i, key, default, as_type) ==
    LET w1 == cache(w, i)
    IN  IF key \in DOMAIN w1.cached_obj[i].d
        THEN Result(w1, unserialize(PyStr(w1.cached_obj[i].d[key].value), as_type))
        ELSE LET up == IF Parent(i) # 0
                       THEN get(w1, Parent(i), key, PyNone, "str")
                       ELSE Result(w1, PyNone)
                 value == up.ret
                 kept == [id |-> 0, object |-> Obj(i), key |-> key, value |-> value.s]
             IN  IF value = PyNone /\ key \in DOMAIN DEFAULTS
                 THEN Result(up.w, unserialize(PyStr(DEFAULTS[key]), as_type))
                 ELSE IF value = PyNone /\ default # PyNone
                      THEN Result(up.w, unserialize(default, as_type))
                 ELSE IF value = PyNone THEN Result(up.w, unserialize(value, as_type))
                 ELSE Result([up.w EXCEPT !.cached_obj[i].d = DictSet(@, key, kept)],
                             unserialize(value, as_type))

\* SettingsProxy.get
get(w, i, key, default, as_type) ==
    LET w1 == cache(w, i)
    IN  IF IsRaise(w1.exc) THEN Result(w1, w1.exc)
        ELSE IF key \in DOMAIN w1.cached_obj[i].d
        THEN LET w2 == cache(w1, i)
             IN  Result(w2, unserialize(PyStr(w2.cached_obj[i].d[key].value), as_type))
        ELSE LET up == IF Parent(i) # 0
                       THEN get(w1, Parent(i), key, PyNone, "str")
                       ELSE Result(w1, PyNone)
                 value == up.ret
             IN  IF IsRaise(value) THEN up
                 ELSE IF value = PyNone /\ key \in DOMAIN DEFAULTS
                      THEN Result(up.w, unserialize(PyStr(DEFAULTS[key]), as_type))
                 ELSE IF value = PyNone /\ default # PyNone
                      THEN Result(up.w, unserialize(default, as_type))
                 ELSE Result(up.w, unserialize(value, as_type))

\* a faulty set: the cache entry is not refreshed after the save
set_NoRefresh(w, i, key, value) ==
    LET w1 == cache(w, i)
        hit == key \in DOMAIN w1.cached_obj[i].d
        s == IF hit THEN Clone(w1.cached_obj[i].d[key]) ELSE NewSetting(i, key)
        w3 == IF hit THEN [w1 EXCEPT !.calls.clone = @ + 1]
              ELSE [w1 EXCEPT !.calls.create = @ + 1]
        text == serialize(value)
    IN  IF IsRaise(text) THEN Result(w3, text)
        ELSE Result(Save(w3, [s EXCEPT !.value = text.s]).w, PyNone)

\* a faulty set: the new record enters the cache before its value is serialized
set_EntryBeforeSerialize(w, i, key, value) ==
    LET w1 == cache(w, i)
        hit == key \in DOMAIN w1.cached_obj[i].d
        s == IF hit THEN Clone(w1.cached_obj[i].d[key]) ELSE NewSetting(i, key)
        w3 == [w1 EXCEPT !.calls[IF hit THEN "clone" ELSE "create"] = @ + 1,
                         !.cached_obj[i].d = DictSet(@, key, s)]
        text == serialize(value)
    IN  IF IsRaise(text) THEN Result(w3, text)
        ELSE LET saved == Save(w3, [s EXCEPT !.value = text.s])
             IN  Result([saved.w EXCEPT !.cached_obj[i].d = DictSet(@, key, saved.rec)],
                        PyNone)

\* a faulty set: a new record is constructed also when the key is cached
set_AlwaysConstructs(w, i, key, value) ==
    LET w1 == cache(w, i)
        s == NewSetting(i, key)
        w3 == [w1 EXCEPT !.calls.create = @ + 1]
        text == serialize(value)
    IN  IF IsRaise(text) THEN Result(w3, text)
        ELSE LET saved == Save(w3, [s EXCEPT !.value = text.s])
             IN  Result([saved.w EXCEPT !.cached_obj[i].d = DictSet(@, key, saved.rec)],
                        PyNone)

\* a faulty set: the cache entry is assigned before the record is saved
set_EntryBeforeSave(w, i, key, value) ==
    LET w1 == cache(w, i)
        hit == key \in DOMAIN w1.cached_obj[i].d
        s == IF hit THEN Clone(w1.cached_obj[i].d[key]) ELSE NewSetting(i, key)
        w3 == [w1 EXCEPT !.calls[IF hit THEN "clone" ELSE "create"] = @ + 1]
        text == serialize(value)
    IN  IF IsRaise(w1.exc) THEN Result(w1, w1.exc)
        ELSE IF IsRaise(text) THEN Result(w3, text)
        ELSE LET saved == Save(w3, [s EXCEPT !.value = text.s])
                 w4 == [saved.w EXCEPT !.cached_obj[i].d = DictSet(@, key, saved.rec)]
             IN  Result(w4, w4.exc)

\* SettingsProxy.set
set(w, i, key, value) ==
    LET w1 == cache(w, i)
        hit == key \in DOMAIN w1.cached_obj[i].d
        w2 == cache(w1, i)
        s == IF hit THEN Clone(w2.cached_obj[i].d[key]) ELSE NewSetting(i, key)
        w3 == IF hit THEN [w2 EXCEPT !.calls.clone = @ + 1]
              ELSE [w1 EXCEPT !.calls.create = @ + 1]
        text == serialize(value)
    IN  IF IsRaise(w1.exc) THEN Result(w1, w1.exc)
        ELSE IF IsRaise(text) THEN Result(w3, text)
        ELSE LET saved == Save(w3, [s EXCEPT !.value = text.s])
                 w4 == cache(saved.w, i)
             IN  IF IsRaise(saved.w.exc) THEN Result(saved.w, saved.w.exc)
                 ELSE Result([w4 EXCEPT !.cached_obj[i].d = DictSet(@, key, saved.rec)],
                             PyNone)

\* a faulty delitem: the record is deleted, its cache entry is kept
delitem_KeepsEntry(w, i, key) ==
    LET w1 == cache(w, i)
    IN  IF key \in DOMAIN w1.cached_obj[i].d
        THEN Result(DeleteRecord(w1, w1.cached_obj[i].d[key]), PyNone)
        ELSE Result(w1, PyNone)

\* a faulty delitem: a key the owner does not hold is deleted on the parent
delitem_ReachesParent(w, i, key) ==
    LET w1 == cache(w, i)
        p == Parent(i)
        wp == IF p # 0 THEN cache(w1, p) ELSE w1
    IN  IF key \in DOMAIN w1.cached_obj[i].d
        THEN LET w2 == DeleteRecord(w1, w1.cached_obj[i].d[key])
             IN  Result([w2 EXCEPT !.cached_obj[i].d = DictDel(@, key)], PyNone)
        ELSE IF p # 0 /\ key \in DOMAIN wp.cached_obj[p].d
        THEN LET w2 == DeleteRecord(wp, wp.cached_obj[p].d[key])
             IN  Result([w2 EXCEPT !.cached_obj[p].d = DictDel(@, key)], PyNone)
        ELSE Result(w1, PyNone)

\* SettingsProxy.__delitem__
delitem(w, i, key) ==
    LET w1 == cache(w, i)
    IN  IF IsRaise(w1.exc) THEN Result(w1, w1.exc)
        ELSE IF key \in DOMAIN w1.cached_obj[i].d
        THEN LET w2 == DeleteRecord(cache(w1, i), w1.cached_obj[i].d[key])
                 w3 == cache(w2, i)
             IN  IF IsRaise(w2.exc) THEN Result(w2, w2.exc)
                 ELSE Result([w3 EXCEPT !.cached_obj[i].d = DictDel(@, key)], PyNone)
        ELSE Result(w1, PyNone)

(***************************************************************************)
(* SettingsSandbox                                                         *)
(***************************************************************************)
\* the sandboxes in use: [type, key, event], event the proxy of self._event
Sandboxes == { [type |-> "plugin", key |-> "foo", event |-> ChainDepth] }

\* a faulty convert_key: type and key change places
convert_key_Swapped(sb, key) == sb.key \o "_" \o sb.type \o "_" \o key

\* SettingsSandbox._convert_key: '%s_%s_%s' % (self._type, self._key, key)
convert_key(sb, key) == sb.type \o "_" \o sb.key \o "_" \o key

\* SettingsSandbox.get: as_type is not forwarded, the builtin `type` is passed
sandbox_get(w, sb, key, default, as_type) ==
    get(w, sb.event, convert_key(sb, key), default, "type")

\* SettingsSandbox.set
sandbox_set(w, sb, key, value) == set(w, sb.event, convert_key(sb, key), value)

\* SettingsSandbox.__delitem__
sandbox_delitem(w, sb, key) == delitem(w, sb.event, convert_key(sb, key))

(***************************************************************************)
(* The operations callers issue, and their inputs.  What an operation      *)
(* returns is the ret of its handler above; the state keeps what the       *)
(* handler leaves behind.                                                  *)
(***************************************************************************)
Keys == {"max_items_per_order", "plugin_foo_bar"}

Items == {"bar"}

AsTypes == {"str", "int", "float", "bool", "list", "dict"}

SetValues ==
    { PyStr(<<"b", "a", "z">>), PyInt(10), PyDict }

CallerDefaults == { PyNone, PyStr(<<"4">>) }

Apply(r) ==
    /\ store' = r.w.store
    /\ nextId' = r.w.nextId
    /\ cached_obj' = r.w.cached_obj
    /\ loads' = r.w.loads

Init ==
    /\ store \in SUBSET SeedRecords
    /\ nextId = FirstId
    /\ cached_obj = [i \in Inst |-> [none |-> TRUE, d |-> EmptyDict]]
    /\ loads = [i \in Inst |-> 0]

\* get(key), as __getitem__ and __getattr__ call it: default and as_type choose
\* the value returned and leave the state as this call leaves it
Get ==
    \E i \in Inst, key \in Keys : Apply(get(World, i, key, PyNone, "str"))

Set ==
    \E i \in Inst, key \in Keys, value \in SetValues :
        /\ nextId < FirstId + MaxRecords
        /\ Apply(set(World, i, key, value))

Delete ==
    \E i \in Inst, key \in Keys : Apply(delitem(World, i, key))

SandboxGet ==
    \E sb \in Sandboxes, item \in Items :
        Apply(sandbox_get(World, sb, item, PyNone, "str"))

SandboxSet ==
    \E sb \in Sandboxes, item \in Items, value \in SetValues :
        /\ nextId < FirstId + MaxRecords
        /\ Apply(sandbox_set(World, sb, item, value))

SandboxDelete ==
    \E sb \in Sandboxes, item \in Items : Apply(sandbox_delitem(World, sb, item))

Next == Get \/ Set \/ Delete \/ SandboxGet \/ SandboxSet \/ SandboxDelete

Spec == Init /\ [][Next]_vars

(***************************************************************************)
(* What the store says, independently of the caches                        *)
(***************************************************************************)
HasLocal(i, k) == \E r \in store : r.object = Obj(i) /\ r.key = k

LocalValue(i, k) == (CHOOSE r \in store : r.object = Obj(i) /\ r.key = k).value

\* the nearest proper ancestor of i with a record for k in the store; 0: none
RECURSIVE Nearest(_, _)
Nearest(i, k) ==
    IF Parent(i) = 0 THEN 0
    ELSE IF HasLocal(Parent(i), k) THEN Parent(i)
    ELSE Nearest(Parent(i), k)

\* no record for k on i nor on any ancestor of i
NowhereInChain(i, k) == ~HasLocal(i, k) /\ Nearest(i, k) = 0

\* a record that a set of this run has written
Written(r) == r \in store /\ r.id >= FirstId

AllLoaded == \A i \in Inst : ~cached_obj[i].none

(***************************************************************************)
(* C1                                                                      *)
(***************************************************************************)
\* C1: an owner without a local record for k answers get(k) with the value of
\* the nearest ancestor that has a record for k, whatever caller default is given.
C1_Inheritance ==
    \A i \in Inst, k \in Keys, d \in CallerDefaults :
        (~HasLocal(i, k) /\ Nearest(i, k) # 0)
            => get(World, i, k, d, "str").ret = PyStr(LocalValue(Nearest(i, k), k))

\* a set on the root has written k, neither descendant holds k, the caches are
\* loaded, and the grandchild resolves k to the root's value
C1_Witness ==
    \E r \in store :
        /\ Written(r) /\ r.object = Obj(1)
        /\ ~HasLocal(2, r.key) /\ ~HasLocal(3, r.key)
        /\ AllLoaded
        /\ get(World, 3, r.key, PyNone, "str").ret = PyStr(r.value)

(***************************************************************************)
(* C2                                                                      *)
(***************************************************************************)
\* C2: a key with no record on the owner or any ancestor, no entry in DEFAULTS
\* and no caller default resolves to None, without an error, for every as_type.
C2_MissingKeyIsNone ==
    \A i \in Inst, k \in Keys, t \in AsTypes :
        (NowhereInChain(i, k) /\ k \notin DOMAIN DEFAULTS)
            => get(World, i, k, PyNone, t).ret = PyNone

(***************************************************************************)
(* C3                                                                      *)
(***************************************************************************)
\* values of the types the round trip is claimed for
RoundTripValues ==
    { PyStr(<<>>), PyStr(<<"b", "a", "z">>), PyStr(<<"1", "0">>),
      PyInt(10), PyInt(-12), PyBool(TRUE), PyBool(FALSE),
      PyList(<<>>), PyList(<<PyInt(1), PyStr(<<"a">>), PyList(<<PyBool(TRUE), PyNone>>)>>),
      PyList(<<PyStr(<<"a", "\"", "\\", "\n">>), PyFloat(1, 5),
               PyDictOf(<<[k |-> <<"k">>, v |-> PyInt(-1)]>>)>>) }

\* C3: on every owner and key, set(k, v) succeeds and a following
\* get(k, as_type=type(v)) returns v, for v a str, an int, a bool or a list.
C3_RoundTrip ==
    \A i \in Inst, k \in Keys, v \in RoundTripValues :
        \A r \in {set(World, i, k, v)} :
            /\ r.ret = PyNone
            /\ get(r.w, i, k, PyNone, v.t).ret = v

\* sets have written an int, a bool or a list on an owner with ancestors and on
\* a key of DEFAULTS, and get returns the typed value
C3_Witness ==
    \E r \in store :
        /\ Written(r) /\ Parent(r.object) # 0
        /\ \/ r.value = <<"1", "0">>
              /\ get(World, r.object, r.key, PyNone, "int").ret = PyInt(10)
              /\ r.key \in DOMAIN DEFAULTS
           \/ r.value = <<"b", "a", "z">>
              /\ get(World, r.object, r.key, PyNone, "str").ret = PyStr(<<"b", "a", "z">>)

(***************************************************************************)
(* C4                                                                      *)
(***************************************************************************)
\* C4: for a key the event holds a record for, whenever the event's
\* SettingsProxy answers get(prefixed key, default, as_type) with a value, the
\* sandbox answers get(item, default, as_type) with the same value (a stored
\* "10" asked for as int is the int 10).
C4_SandboxForwardsType ==
    \A sb \in Sandboxes, item \in Items, d \in CallerDefaults, t \in AsTypes :
        LET direct == get(World, sb.event, convert_key(sb, item), d, t).ret
        IN  (HasLocal(sb.event, convert_key(sb, item)) /\ ~IsRaise(direct))
                => sandbox_get(World, sb, item, d, t).ret = direct

(***************************************************************************)
(* C5                                                                      *)
(***************************************************************************)
\* the state in which owner i never had a record for k: none in the store,
\* none in its cache
NeverSet(w, i, k) ==
    [w EXCEPT !.store = {r \in @ : ~(r.object = Obj(i) /\ r.key = k)},
              !.cached_obj[i].d = DictDel(@, k)]

\* what resolution past owner i gives for k, read off the store: the nearest
\* ancestor's record, else DEFAULTS, else the caller's default, else None
FallThrough(i, k, d, t) ==
    IF Nearest(i, k) # 0 THEN unserialize(PyStr(LocalValue(Nearest(i, k), k)), t)
    ELSE IF k \in DOMAIN DEFAULTS THEN unserialize(PyStr(DEFAULTS[k]), t)
    ELSE IF d # PyNone THEN unserialize(d, t)
    ELSE unserialize(PyNone, t)

\* C5: after set(k, v) and then delete(k) on an owner, the store and the caches
\* are those of the state where the owner never had a record for k, so that
\* get(k, default, as_type) returns what it returns there: the resolution past
\* the owner.
C5_DeleteUndoesSet ==
    \A i \in Inst, k \in Keys :
        \A never \in {NeverSet(cache(World, i), i, k)} :
            /\ \A v \in SetValues :
                  \A after \in {delitem(set(World, i, k, v).w, i, k).w} :
                      /\ after.store = never.store
                      /\ after.cached_obj = never.cached_obj
                      /\ get(after, i, k, PyNone, "str").ret
                            = get(never, i, k, PyNone, "str").ret
            /\ \A d \in CallerDefaults, t \in {"str", "int"} :
                  get(never, i, k, d, t).ret = FallThrough(i, k, d, t)

\* a set has written (the id counter moved), its record is gone again, the
\* owner's cache is loaded and get falls through to the parent's record
C5_Witness ==
    \E i \in Inst, k \in Keys :
        /\ nextId > FirstId /\ \A r \in store : ~Written(r)
        /\ ~cached_obj[i].none /\ k \notin DOMAIN cached_obj[i].d
        /\ ~HasLocal(i, k) /\ Nearest(i, k) # 0
        /\ get(World, i, k, PyStr(<<"4">>), "str").ret = PyStr(LocalValue(Nearest(i, k), k))

(***************************************************************************)
(* C6                                                                      *)
(***************************************************************************)
\* C6: with no record for k on the owner or any ancestor, get(k, default=d)
\* answers from DEFAULTS when k is in it, also when d is not None, and from d
\* only when k is not in DEFAULTS; with a record on an ancestor it answers from
\* the nearest such record.  An owner with no max_items_per_order anywhere in
\* its chain gets the int 10.
C6_DefaultPrecedence ==
    \A i \in Inst, k \in Keys, d \in CallerDefaults, t \in {"str", "int"} :
        LET ret == get(World, i, k, d, t).ret
        IN  /\ (NowhereInChain(i, k) /\ k \in DOMAIN DEFAULTS)
                  => ret = unserialize(PyStr(DEFAULTS[k]), t)
            /\ (NowhereInChain(i, k) /\ k \notin DOMAIN DEFAULTS /\ d # PyNone)
                  => ret = unserialize(d, t)
            /\ (~HasLocal(i, k) /\ Nearest(i, k) # 0)
                  => ret = unserialize(PyStr(LocalValue(Nearest(i, k), k)), t)
            /\ (NowhereInChain(i, k) /\ k = "max_items_per_order" /\ t = "int")
                  => ret = PyInt(10)

\* the chain of the deepest owner holds no max_items_per_order although sets
\* and deletes have acted and every cache is loaded; get with a caller default
\* still returns 10
C6_Witness ==
    /\ NowhereInChain(ChainDepth, "max_items_per_order")
    /\ AllLoaded /\ nextId > FirstId
    /\ get(World, ChainDepth, "max_items_per_order", PyStr(<<"4">>), "int").ret = PyInt(10)

(***************************************************************************)
(* C7                                                                      *)
(***************************************************************************)
\* C7: a loaded cache maps exactly the keys of its owner's current records,
\* each key to the store's current record for it.
C7_CacheCoherence ==
    \A i \in Inst :
        ~cached_obj[i].none =>
            /\ DOMAIN cached_obj[i].d = {r.key : r \in CurrentAll(World, i)}
            /\ \A r \in CurrentAll(World, i) : cached_obj[i].d[r.key] = r

\* after a set on a key that was cached and a delete, a loaded cache holds the
\* record the set wrote and no seed record of its owner is left
C7_Witness ==
    \E i \in Inst, r \in store :
        /\ Written(r) /\ r.object = Obj(i)
        /\ \E s \in SeedRecords : s.object = Obj(i) /\ s.key = r.key
        /\ ~cached_obj[i].none /\ cached_obj[i].d[r.key] = r
        /\ SeedRecords \cap store = {}

(***************************************************************************)
(* C8                                                                      *)
(***************************************************************************)
\* the records of w other than owner i's record for k
Others(w, i, k) == {r \in w.store : ~(r.object = Obj(i) /\ r.key = k)}

\* the cache entries proxy i answers from in w, other than the entry for k
OtherEntries(w, i, k) == DictDel(cache(w, i).cached_obj[i].d, k)

\* from World to w only owner i's record and cache entry for k may differ
OnlyTouches(w, i, k) ==
    /\ Others(w, i, k) = Others(World, i, k)
    /\ OtherEntries(w, i, k) = OtherEntries(World, i, k)
    /\ \A j \in Inst \ {i} : w.cached_obj[j] = cached_obj[j]

\* C8: get changes no record of the store; set(k, v) and delete(k) on an owner
\* change only that owner's record and cache entry for k.
C8_Frame ==
    \A i \in Inst, k \in Keys :
        /\ get(World, i, k, PyNone, "str").w.store = store
        /\ \A v \in SetValues : OnlyTouches(set(World, i, k, v).w, i, k)
        /\ OnlyTouches(delitem(World, i, k).w, i, k)

\* a set on the deepest owner has written while both seed records and the
\* parent's loaded cache are as they were
C8_Witness ==
    /\ SeedRecords \subseteq store
    /\ \E r \in store : Written(r) /\ r.object = Obj(ChainDepth)
    /\ ~cached_obj[2].none
    /\ cached_obj[2].d = DictOf(InStoreOrder({s \in SeedRecords : s.object = Obj(2)}))

(***************************************************************************)
(* C9                                                                      *)
(***************************************************************************)
\* the sandbox of the scenario: scope "plugin", sub-key "foo", on the event
PluginFoo == [type |-> "plugin", key |-> "foo", event |-> ChainDepth]

StrValues == {v \in SetValues \cup RoundTripValues : v.t = "str"}

\* C9: through the sandbox ("plugin", "foo") of owner E, set("bar", v) with a
\* str v leaves E's cache holding "plugin_foo_bar" with value v, get("bar") then
\* returns v, and delete("bar") removes that entry and no other.
C9_SandboxKeys ==
    \A v \in StrValues :
        \A r \in {sandbox_set(World, PluginFoo, "bar", v)} :
            \A dict \in {r.w.cached_obj[PluginFoo.event].d} :
                /\ PluginFoo \in Sandboxes
                /\ "plugin_foo_bar" \in DOMAIN dict
                /\ dict["plugin_foo_bar"].value = v.s
                /\ dict["plugin_foo_bar"] \in r.w.store
                /\ sandbox_get(r.w, PluginFoo, "bar", PyNone, "str").ret = v
                /\ sandbox_delitem(r.w, PluginFoo, "bar").w.cached_obj[PluginFoo.event].d
                      = DictDel(dict, "plugin_foo_bar")

\* the event's cache holds "plugin_foo_bar" = "baz", written by a set, next to
\* another key, and the sandbox's get("bar") returns "baz"
C9_Witness ==
    /\ ~cached_obj[ChainDepth].none
    /\ DOMAIN cached_obj[ChainDepth].d = Keys
    /\ Written(cached_obj[ChainDepth].d["plugin_foo_bar"])
    /\ sandbox_get(World, PluginFoo, "bar", PyNone, "str").ret = PyStr(<<"b", "a", "z">>)

(***************************************************************************)
(* C10                                                                     *)
(***************************************************************************)
\* C10: a proxy that has not been used has enumerated nothing; the cache a
\* proxy answers from holds every current key of its owner; and a get, set or
\* delete on a proxy leaves it having enumerated its owner's records exactly
\* once, however many operations came before.
C10_LazySingleLoad ==
    \A i \in Inst :
        /\ loads[i] = IF cached_obj[i].none THEN 0 ELSE 1
        /\ DOMAIN cache(World, i).cached_obj[i].d = {r.key : r \in CurrentAll(World, i)}
        /\ \A k \in Keys :
              /\ get(World, i, k, PyNone, "str").w.loads[i] = 1
              /\ delitem(World, i, k).w.loads[i] = 1
              /\ \A v \in SetValues : set(World, i, k, v).w.loads[i] = 1

\* the deepest owner's proxy was never used and has enumerated nothing, while
\* its parent's has served a set and a delete with one enumeration
C10_Witness ==
    /\ cached_obj[ChainDepth].none /\ loads[ChainDepth] = 0
    /\ loads[2] = 1 /\ nextId > FirstId
    /\ ~HasLocal(2, "plugin_foo_bar") /\ \E r \in store : Written(r) /\ r.object = Obj(2)

(***************************************************************************)
(* C11                                                                     *)
(***************************************************************************)
\* values of types _serialize has no branch for
UnsupportedValues ==
    { PyDict, PyDictOf(<<[k |-> <<"a">>, v |-> PyInt(1)]>>), PyNone }

\* C11: set(k, v) with a v that is not a str, int, float, bool or list raises
\* TypeError, saves nothing, leaves the store as it was and the cache as a
\* lookup would have left it, so that get(k) returns what it returned before.
C11_UnsupportedRejected ==
    \A i \in Inst, k \in Keys, v \in UnsupportedValues :
        \A r \in {set(World, i, k, v)} :
            /\ r.ret = Raise("TypeError")
            /\ r.w.calls.save = 0
            /\ r.w.store = store /\ r.w.nextId = nextId
            /\ r.w.cached_obj = cache(World, i).cached_obj
            /\ \A t \in {"str", "int"} :
                  get(r.w, i, k, PyNone, t).ret = get(World, i, k, PyNone, t).ret

\* an owner's cache holds a record that an earlier set wrote; set(k, {}) on it
\* raises and get(k) still returns the written value
C11_Witness ==
    \E i \in Inst, k \in Keys :
        /\ ~cached_obj[i].none /\ k \in DOMAIN cached_obj[i].d
        /\ Written(cached_obj[i].d[k])
        /\ \A r \in {set(World, i, k, PyDict)} :
              /\ IsRaise(r.ret)
              /\ get(r.w, i, k, PyNone, "str").ret = PyStr(cached_obj[i].d[k].value)

(***************************************************************************)
(* C12                                                                     *)
(***************************************************************************)
\* the values the bool convention is claimed for: the two bools, "True" and
\* strings that differ from it
BoolValues ==
    { PyBool(TRUE), PyBool(FALSE), PyStr(Chars("True")), PyStr(Chars("true")),
      PyStr(<<"1">>), PyStr(<<>>) }

SetBool ==
    \E i \in Inst, key \in Keys, value \in BoolValues :
        /\ nextId < FirstId + MaxRecords
        /\ Apply(set(World, i, key, value))

GetBool ==
    \E i \in Inst, key \in Keys : Apply(get(World, i, key, PyNone, "bool"))

NextBool == SetBool \/ GetBool \/ Delete

\* the owners' settings used as flags
SpecBool == Init /\ [][NextBool]_vars

\* the stored string that answers k on owner i: its own record's, else the
\* nearest ancestor's
StoredText(i, k) ==
    IF HasLocal(i, k) THEN LocalValue(i, k) ELSE LocalValue(Nearest(i, k), k)

\* C12: get(k, as_type=bool) on a key answered by a stored string s is True
\* exactly when s is "True"; after set(k, True) and after set(k, "True") it is
\* True, after set(k, "true"), set(k, "1"), set(k, "") and set(k, False) it is
\* False.
C12_BoolConvention ==
    \A i \in Inst, k \in Keys :
        /\ (HasLocal(i, k) \/ Nearest(i, k) # 0)
              => get(World, i, k, PyNone, "bool").ret
                    = PyBool(StoredText(i, k) = Chars("True"))
        /\ \A v \in BoolValues :
              get(set(World, i, k, v).w, i, k, PyNone, "bool").ret
                  = PyBool(v = PyBool(TRUE) \/ v = PyStr(Chars("True")))

\* a set has stored "True" on the root and a descendant without a record of
\* its own reads the flag as True
C12_Witness ==
    \E r \in store, i \in Inst :
        /\ Written(r) /\ r.value = Chars("True") /\ r.object = Obj(1)
        /\ i # 1 /\ ~HasLocal(i, r.key) /\ Nearest(i, r.key) = 1
        /\ ~cached_obj[i].none
        /\ get(World, i, r.key, PyNone, "bool").ret = PyBool(TRUE)

(***************************************************************************)
(* C13                                                                     *)
(***************************************************************************)
\* owner i's cache, once loaded, has no entry for k
Absent(i, k) == k \notin DOMAIN cache(World, i).cached_obj[i].d

\* r is the outcome of an operation that deleted nothing: no Setting.delete(),
\* the store as it was, the caches as a lookup on i would have left them
DeletedNothing(r, i) ==
    /\ r.ret = PyNone
    /\ r.w.calls.delete = 0
    /\ r.w.store = store
    /\ r.w.cached_obj = cache(World, i).cached_obj

\* C13: delete(k) on an owner whose cache has no entry for k, directly or
\* through a sandbox, calls no Setting.delete(), leaves every record (the
\* ancestors' records for k too) and every cache entry as they were, and
\* get(k) returns afterwards what it returned before.
C13_DeleteAbsentNoOp ==
    /\ \A i \in Inst, k \in Keys :
          Absent(i, k) =>
              \A r \in {delitem(World, i, k)} :
                  /\ DeletedNothing(r, i)
                  /\ \A d \in CallerDefaults :
                        get(r.w, i, k, d, "str").ret = get(World, i, k, d, "str").ret
    /\ \A sb \in Sandboxes, item \in Items :
          Absent(sb.event, convert_key(sb, item)) =>
              DeletedNothing(sandbox_delitem(World, sb, item), sb.event)

\* after sets and deletes, an owner with a loaded cache has no record for a key
\* of DEFAULTS that an ancestor holds; delete(k) on it leaves the ancestor's
\* record in place and get(k) returns the ancestor's value
C13_Witness ==
    \E i \in Inst, k \in Keys :
        /\ ~cached_obj[i].none /\ k \notin DOMAIN cached_obj[i].d
        /\ nextId > FirstId
        /\ k \in DOMAIN DEFAULTS /\ ~HasLocal(i, k) /\ Nearest(i, k) # 0
        /\ \A r \in {delitem(World, i, k)} :
              /\ HasLocal(Nearest(i, k), k) /\ r.w.store = store
              /\ get(r.w, i, k, PyNone, "str").ret = PyStr(LocalValue(Nearest(i, k), k))

(***************************************************************************)
(* C14                                                                     *)
(***************************************************************************)
\* C14: set(k, v) on a cached key calls clone() once and the constructor never,
\* on an uncached key the constructor once and clone() never; a set that
\* returns has called save() exactly once, no set calls it twice, and the
\* record it wrote is the owner's one current record for k.  In every state
\* reached by sets and deletes an owner has at most one current record per key.
C14_OneWritePerSet ==
    /\ \A i \in Inst, k \in Keys, v \in SetValues :
          \A r \in {set(World, i, k, v)} :
              /\ r.w.calls.clone = IF Absent(i, k) THEN 0 ELSE 1
              /\ r.w.calls.create = IF Absent(i, k) THEN 1 ELSE 0
              /\ r.w.calls.save = IF r.ret = PyNone THEN 1 ELSE 0
              /\ r.w.calls.delete = 0
              /\ r.ret = PyNone =>
                    /\ Cardinality(r.w.store \ store) = 1
                    /\ \A n \in r.w.store \ store :
                          /\ n.object = Obj(i) /\ n.key = k
                          /\ \A q \in CurrentAll(r.w, i) : q.key = k => q = n
    /\ \A p, q \in store : (p.object = q.object /\ p.key = q.key) => p = q

\* a set has replaced a seed record of an owner: the written record is the
\* owner's only record, and a further set on that key clones and saves once
C14_Witness ==
    \E r \in store, s \in SeedRecords :
        /\ Written(r) /\ s.object = r.object /\ s.key = r.key /\ s \notin store
        /\ CurrentAll(World, r.object) = {r}
        /\ set(World, r.object, r.key, PyInt(10)).w.calls
              = [clone |-> 1, create |-> 0, save |-> 1, delete |-> 0]

(***************************************************************************)
(* Operations during which a store call fails                              *)
(***************************************************************************)
\* w, with every save() of the operation failing
SaveFault(w) == [w EXCEPT !.faults.save = TRUE]

\* w, with every delete() of the operation failing
DeleteFault(w) == [w EXCEPT !.faults.delete = TRUE]

\* w, with every enumeration of the operation failing once it has yielded the
\* records in seen
LoadFault(w, seen) == [w EXCEPT !.faults.load = TRUE, !.faults.seen = seen]

\* the state an operation left, handed to the next operation
Healthy(w) == [w EXCEPT !.faults = NoFaults, !.exc = PyNone, !.calls = NoCalls]

SetSaveFails ==
    \E i \in Inst, key \in Keys, value \in SetValues :
        Apply(set(SaveFault(World), i, key, value))

DeleteFails ==
    \E i \in Inst, key \in Keys : Apply(delitem(DeleteFault(World), i, key))

LoadFails ==
    \E i \in Inst, key \in Keys, seen \in SUBSET store :
        Apply(get(LoadFault(World, seen), i, key, PyNone, "str"))

NextFaults == Next \/ SetSaveFails \/ DeleteFails \/ LoadFails

\* the operations over a store whose calls may fail
SpecFaults == Init /\ [][NextFaults]_vars

(***************************************************************************)
(* C15                                                                     *)
(***************************************************************************)
\* values _serialize accepts
Serializable == {v \in SetValues \cup RoundTripValues : ~IsRaise(serialize(v))}

\* C15: when save() fails inside set(k, v), set raises the store's exception
\* after that one call of save() and the caches are what a lookup would have
\* left, the entry for k included; when delete() fails inside delete(k) on a
\* cached key, delete raises the store's exception after that one call and the
\* cache still holds the record for k.
C15_StoreFailureKeepsCache ==
    \A i \in Inst, k \in Keys :
        \A before \in {cache(World, i).cached_obj} :
            /\ \A v \in Serializable :
                  \A r \in {set(SaveFault(World), i, k, v)} :
                      /\ r.ret = Raise("StoreError")
                      /\ r.w.calls.save = 1
                      /\ r.w.cached_obj = before
            /\ k \in DOMAIN before[i].d =>
                  \A r \in {delitem(DeleteFault(World), i, k)} :
                      /\ r.ret = Raise("StoreError")
                      /\ r.w.calls.delete = 1
                      /\ r.w.cached_obj = before
                      /\ k \in DOMAIN r.w.cached_obj[i].d

\* an owner's loaded cache holds a record a set wrote for k and has no entry
\* for another key; a set whose save() fails raises on both keys and leaves the
\* one entry, and a delete whose delete() fails raises and leaves it too
C15_Witness ==
    \E i \in Inst, k \in Keys, k2 \in Keys :
        /\ ~cached_obj[i].none /\ DOMAIN cached_obj[i].d = {k} /\ k2 # k
        /\ Written(cached_obj[i].d[k])
        /\ \A r \in {set(SaveFault(World), i, k, PyInt(10)),
                     set(SaveFault(World), i, k2, PyInt(10)),
                     delitem(DeleteFault(World), i, k)} :
              /\ r.ret = Raise("StoreError")
              /\ r.w.cached_obj[i].d = cached_obj[i].d

(***************************************************************************)
(* C19                                                                     *)
(***************************************************************************)
\* C19: when the enumeration fails during the first access of a proxy, after
\* yielding any part of the owner's records, the access raises, the proxy is
\* still not loaded, and the next get(k) returns what get(k) returns when no
\* enumeration has failed.
C19_FailedLoadRetried ==
    \A i \in Inst, k \in Keys :
        cached_obj[i].none =>
            \A seen \in SUBSET CurrentAll(World, i) :
                \A f \in {get(LoadFault(World, seen), i, k, PyNone, "str")} :
                    /\ IsRaise(f.ret)
                    /\ f.w.cached_obj[i].none
                    /\ get(Healthy(f.w), i, k, PyNone, "str").ret
                          = get(World, i, k, PyNone, "str").ret

(***************************************************************************)
(* Several SettingsProxy instances over one store                          *)
(*                                                                         *)
(* cached_obj holds the proxies of one set of owner objects.  Another set  *)
(* of owner objects for the same owners (another request) has proxies of   *)
(* its own, new for each of its operations; what it leaves behind is the   *)
(* store.                                                                  *)
(***************************************************************************)
\* w as newly constructed proxies find it: SettingsProxy.__init__
Fresh(w) ==
    [w EXCEPT !.cached_obj = [i \in Inst |-> [none |-> TRUE, d |-> EmptyDict]],
              !.loads = [i \in Inst |-> 0]]

\* w after the operation with outcome r was made through other proxies
Elsewhere(w, r) == [w EXCEPT !.store = r.w.store, !.nextId = r.w.nextId]

ApplyElsewhere(r) ==
    /\ store' = r.w.store
    /\ nextId' = r.w.nextId
    /\ UNCHANGED <<cached_obj, loads>>

\* the values other proxies write
OtherValues == { PyStr(<<"b", "a", "z">>) }

OtherSet ==
    \E i \in Inst, key \in Keys, value \in OtherValues :
        /\ nextId < FirstId + MaxRecords
        /\ ApplyElsewhere(set(Fresh(World), i, key, value))

OtherDelete ==
    \E i \in Inst, key \in Keys : ApplyElsewhere(delitem(Fresh(World), i, key))

NextShared == Get \/ OtherSet \/ OtherDelete

\* proxies that read while other proxies write the same owners' records
SpecShared == Init /\ [][NextShared]_vars

(***************************************************************************)
(* C16                                                                     *)
(***************************************************************************)
\* C16: once a proxy has loaded, a set(k, v) or delete(k) made on its owner
\* through another proxy does not change what its get(k) returns, whatever
\* other proxies did before; a proxy constructed after the change returns v
\* after the set and the resolution past the owner after the delete.
C16_NoInvalidation ==
    \A i \in Inst, k \in Keys :
        ~cached_obj[i].none =>
            \A mine \in {get(World, i, k, PyNone, "str").ret} :
                /\ \A v \in Serializable \cap SetValues :
                      \A after \in {Elsewhere(World, set(Fresh(World), i, k, v))} :
                          /\ get(after, i, k, PyNone, "str").ret = mine
                          /\ get(Fresh(after), i, k, PyNone, "str").ret = serialize(v)
                /\ \A after \in {Elsewhere(World, delitem(Fresh(World), i, k))} :
                      /\ get(after, i, k, PyNone, "str").ret = mine
                      /\ get(Fresh(after), i, k, PyNone, "str").ret
                            = FallThrough(i, k, PyNone, "str")

\* a loaded proxy lacks the record another proxy has written for its owner and
\* still holds a record another proxy has deleted: its get returns the old
\* values, a new proxy's get the store's
C16_Witness ==
    \E i \in Inst, r \in store, k2 \in Keys :
        /\ ~cached_obj[i].none
        /\ Written(r) /\ r.object = Obj(i) /\ r.key \notin DOMAIN cached_obj[i].d
        /\ k2 \in DOMAIN cached_obj[i].d /\ ~HasLocal(i, k2)
        /\ get(World, i, r.key, PyNone, "str").ret # PyStr(r.value)
        /\ get(Fresh(World), i, r.key, PyNone, "str").ret = PyStr(r.value)
        /\ get(World, i, k2, PyNone, "str").ret = PyStr(cached_obj[i].d[k2].value)
        /\ get(Fresh(World), i, k2, PyNone, "str").ret # PyStr(cached_obj[i].d[k2].value)

(***************************************************************************)
(* C17                                                                     *)
(***************************************************************************)
\* C17: get(k) on an owner with a parent writes no record and adds no entry to
\* the owner's cache; when the owner has no entry for k, then after that get
\* and a later set(k, v) through the parent's proxy get(k) returns v, and after
\* a later delete(k) through the parent's proxy it returns what the parent's
\* get(k) then returns.
C17_InheritedNotCopied ==
    \A i \in Inst, k \in Keys :
        Parent(i) # 0 =>
            \A g \in {get(World, i, k, PyNone, "str")} :
                /\ g.w.store = store
                /\ g.w.cached_obj[i].d = cache(World, i).cached_obj[i].d
                /\ Absent(i, k) =>
                      /\ \A v \in Serializable \cap SetValues :
                            get(set(g.w, Parent(i), k, v).w, i, k, PyNone, "str").ret
                                = serialize(v)
                      /\ \A gone \in {delitem(g.w, Parent(i), k).w}, d \in CallerDefaults :
                            get(gone, i, k, d, "str").ret
                                = get(gone, Parent(i), k, d, "str").ret

\* the deepest owner's loaded cache has no entry for the key its parent held a
\* seed record for; a set through the parent has replaced that record, and
\* the deepest owner's get returns the new value and leaves its cache as it is
C17_Witness ==
    \E r \in store, s \in SeedRecords :
        /\ Written(r) /\ r.object = Obj(Parent(ChainDepth))
        /\ s.object = r.object /\ s.key = r.key /\ s \notin store
        /\ ~cached_obj[ChainDepth].none /\ r.key \notin DOMAIN cached_obj[ChainDepth].d
        /\ \A g \in {get(World, ChainDepth, r.key, PyNone, "str")} :
              /\ g.ret = PyStr(r.value) /\ g.ret # PyStr(s.value)
              /\ g.w.cached_obj[ChainDepth] = cached_obj[ChainDepth]

(***************************************************************************)
(* Sandboxes whose scopes and items contain the separator                  *)
(***************************************************************************)
\* SettingsSandbox(type, key, event) for three different (type, key) on one event
Views ==
    { [type |-> "a_b", key |-> "c", event |-> ChainDepth],
      [type |-> "a", key |-> "b_c", event |-> ChainDepth],
      [type |-> "a", key |-> "b", event |-> ChainDepth] }

ViewItems == {"d", "c_d"}

ViewGet ==
    \E sb \in Views, item \in ViewItems :
        Apply(sandbox_get(World, sb, item, PyNone, "str"))

ViewSet ==
    \E sb \in Views, item \in ViewItems, value \in SetValues :
        /\ nextId < FirstId + MaxRecords
        /\ Apply(sandbox_set(World, sb, item, value))

ViewDelete ==
    \E sb \in Views, item \in ViewItems : Apply(sandbox_delitem(World, sb, item))

NextViews == ViewGet \/ ViewSet \/ ViewDelete

\* plugins working on one event through their sandboxes
SpecViews == Init /\ [][NextViews]_vars

(***************************************************************************)
(* C18                                                                     *)
(***************************************************************************)
\* C18: two sandboxes on one event with different (type, key) never address
\* the same key of the event's settings, for any items: a set or a delete
\* through one leaves what get returns through the other as it was.
C18_NamespaceIsolation ==
    \A a \in Views, b \in Views, x \in ViewItems, y \in ViewItems :
        (a.event = b.event /\ <<a.type, a.key>> # <<b.type, b.key>>) =>
            \A seen \in {sandbox_get(World, b, y, PyNone, "str").ret} :
                /\ convert_key(a, x) # convert_key(b, y)
                /\ \A v \in SetValues :
                      sandbox_get(sandbox_set(World, a, x, v).w, b, y, PyNone, "str").ret
                          = seen
                /\ sandbox_get(sandbox_delitem(World, a, x).w, b, y, PyNone, "str").ret
                      = seen

====
